---- MODULE Spec2Model ----
(***************************************************************************)
(* BuildGeometryFilter (osgEarthFeatures/BuildGeometryFilter.cpp).         *)
(*                                                                         *)
(* The filter instance is the state: its style, its feature-name           *)
(* expression, its accumulator (_geode), and the position of the one       *)
(* synchronous push() call that may be running on it.  push() is split at  *)
(* the places where it calls process() and where process() starts the next *)
(* leaf part, so that the passes, the consolidation and the return are     *)
(* separate positions.                                                     *)
(***************************************************************************)
EXTENDS Integers, Sequences, FiniteSets, TLC

\* ---------------------------------------------------------------- bounds
MaxPts      == 3    \* largest number of points in a ring / line / point set
MaxHoles    == 2    \* largest number of holes in a polygon
MaxFeatures == 2    \* longest feature list handed to push()
MaxGrow     == 1    \* most vertices the mesh subdivider adds to one geometry
MaxPushes   == 2    \* push() calls on one filter instance

\* ---------------------------------------------------------------- styles
Kinds == {"Point", "Line", "Polygon"}

\* A style: the symbol kinds it holds, and the two LineSymbol fields the
\* filter reads (tessellation().isSetTo(0), stroke()->widthUnits() != PIXELS).
Styles ==
    { s \in [syms : SUBSET Kinds, tess0 : BOOLEAN, world : BOOLEAN] :
        "Line" \notin s.syms => (~s.tess0 /\ ~s.world) }

EmptyStyle == [syms |-> {}, tess0 |-> FALSE, world |-> FALSE]

\* Style::remove<T>()
Remove(s, k) ==
    IF k = "Line"
    THEN [syms |-> s.syms \ {"Line"}, tess0 |-> FALSE, world |-> FALSE]
    ELSE [s EXCEPT !.syms = @ \ {k}]

\* Style::get<T>() != 0
Has(s, k) == k \in s.syms

\* ------------------------------------------------------------- geometry
\* Geometry::Type of a leaf part (GeometryIterator never yields a MULTI).
Types == {"POINTSET", "LINESTRING", "RING", "POLYGON"}

\* Fewest points a geometry of the type needs not to be degenerate.
MinPoints(type) ==
    CASE type = "POINTSET"   -> 1
      [] type = "LINESTRING" -> 2
      [] OTHER               -> 3

\* A hole of a polygon: a ring, with the validator's verdict on it.  A ring
\* is invalid when degenerate, and may be invalid (self-intersecting) when
\* it has enough points.
Holes == { h \in [size : 2..MaxPts, valid : BOOLEAN] : h.valid => h.size >= 3 }

RECURSIVE SeqsUpTo(_, _)
SeqsUpTo(S, n) ==
    IF n = 0 THEN { <<>> }
    ELSE LET shorter == SeqsUpTo(S, n - 1)
         IN  shorter \cup { Append(q, x) : q \in { r \in shorter : Len(r) = n - 1 }, x \in S }

\* A leaf part: its type, part->size() (the points of the part itself; the
\* outer ring of a polygon), the verdict of isValid(), and its holes.
Parts ==
    { p \in [type : Types, size : 0..MaxPts, valid : BOOLEAN,
             holes : SeqsUpTo(Holes, MaxHoles)] :
        /\ (p.valid => p.size >= MinPoints(p.type))
        /\ (p.type \in {"POINTSET", "LINESTRING"} => (p.valid <=> p.size >= MinPoints(p.type)))
        /\ (p.type # "POLYGON" => p.holes = <<>>) }

RECURSIVE SumSizes(_)
SumSizes(hs) == IF hs = <<>> THEN 0 ELSE Head(hs).size + SumSizes(Tail(hs))

\* Geometry::getTotalPointCount(): the part's points and those of its holes.
getTotalPointCount(part) == part.size + SumSizes(part.holes)

\* One step of the nested loops of process(): a feature (its optional style
\* override) and one leaf part of its geometry.  A feature with a multi-part
\* geometry is several consecutive entries with the same override.  The
\* entries that carry an override are taken without holes: nothing that
\* handles the holes reads a style.
Features ==
    { f \in [hasStyle : BOOLEAN, style : Styles, part : Parts] :
        /\ (~f.hasStyle => f.style = EmptyStyle)
        /\ (f.hasStyle => f.part.holes = <<>>) }

\* ------------------------------------------------------ process(): a part
\* "resolve the geometry type from the component type and the symbology"
RenderType(myStyle, part) ==
    IF Has(myStyle, "Polygon") /\ part.type # "POINTSET" /\ getTotalPointCount(part) >= 3
    THEN "POLYGON"
    ELSE IF Has(myStyle, "Line")
    THEN (IF part.type = "POLYGON" THEN "RING" ELSE part.type)
    ELSE IF Has(myStyle, "Point")
    THEN "POINTSET"
    ELSE part.type

\* the validation with the minimum of a line taken one too low
BelowMinimum_Mut(renderType, part) ==
    \/ renderType = "POLYGON" /\ part.size < 3
    \/ renderType \in {"LINESTRING", "RING"} /\ part.size < 1

\* "validate the geometry": TRUE when the part is skipped
BelowMinimum(renderType, part) ==
    \/ renderType = "POLYGON" /\ part.size < 3
    \/ renderType \in {"LINESTRING", "RING"} /\ part.size < 2

\* "resolve the color"
PrimaryColor(myStyle) ==
    IF Has(myStyle, "Polygon") THEN "polygonFill"
    ELSE IF Has(myStyle, "Line") THEN "lineStroke"
    ELSE IF Has(myStyle, "Point") THEN "pointFill"
    ELSE "white"

\* the style a part is built with
MyStyle(feature, style) == IF feature.hasStyle THEN feature.style ELSE style

\* osg::DrawArrays(mode, first, count)
DrawArrays(mode, first, count) == [mode |-> mode, first |-> first, count |-> count]

\* A new osg::Geometry: no vertex array, no primitive set.
NoArray == -1
NewGeometry == [verts |-> NoArray, prims |-> <<>>]

\* the loop over the holes with the offset advanced past a dropped hole too
RECURSIVE AddHoles_Mut(_, _, _)
AddHoles_Mut(holes, offset, geom) ==
    IF holes = <<>> THEN geom
    ELSE LET hole == Head(holes)
         IN  IF hole.valid
             THEN AddHoles_Mut(Tail(holes), offset + hole.size,
                               [verts |-> geom.verts + hole.size,
                                prims |-> Append(geom.prims, DrawArrays("LINE_LOOP", offset, hole.size))])
             ELSE AddHoles_Mut(Tail(holes), offset + hole.size, geom)

\* buildPolygon(), the loop over the holes: a valid hole appends its points
\* and gets a LINE_LOOP at the running offset; an invalid one is passed over.
RECURSIVE AddHoles(_, _, _)
AddHoles(holes, offset, geom) ==
    IF holes = <<>> THEN geom
    ELSE LET hole == Head(holes)
         IN  IF hole.valid
             THEN AddHoles(Tail(holes), offset + hole.size,
                           [verts |-> geom.verts + hole.size,
                            prims |-> Append(geom.prims, DrawArrays("LINE_LOOP", offset, hole.size))])
             ELSE AddHoles(Tail(holes), offset, geom)

\* osgUtil::Tessellator::retessellatePolygons: the contours become triangles
\* over the same vertex array.
Tessellate(geom) ==
    [geom EXCEPT !.prims = << DrawArrays("TRIANGLES", 0, geom.verts) >>]

\* buildPolygon() up to setVertexArray(): the outer ring, then the holes.
\* Only a Polygon has holes (dynamic_cast<Polygon*>).
PolygonLoops(ring) ==
    AddHoles(IF ring.type = "POLYGON" THEN ring.holes ELSE <<>>,
             ring.size,
             [verts |-> ring.size,
              prims |-> << DrawArrays("LINE_LOOP", 0, ring.size) >>])

\* buildPolygon(ring, ..., tessellate, osgGeom): the geometry it leaves behind
buildPolygon(ring, tessellate, osgGeom) ==
    IF ~ring.valid THEN osgGeom
    ELSE IF tessellate THEN Tessellate(PolygonLoops(ring))
    ELSE PolygonLoops(ring)

\* PolygonizeLinesOperator: a triangulated ribbon, two vertices per point.
PolygonizeLines(n) ==
    [verts |-> 2 * n, prims |-> << DrawArrays("TRIANGLES", 0, 2 * n) >>]

PrimMode(renderType) ==
    CASE renderType = "LINESTRING" -> "LINE_STRIP"
      [] renderType = "RING"       -> "LINE_LOOP"
      [] OTHER                     -> "POINTS"

\* "line or point geometry"
buildLine(part, renderType, myStyle) ==
    IF Has(myStyle, "Line") /\ myStyle.world
    THEN PolygonizeLines(part.size)
    ELSE [verts |-> part.size,
          prims |-> << DrawArrays(PrimMode(renderType), 0, part.size) >>]

\* MeshSubdivider::run: g vertices are added and the primitive sets are
\* rewritten over the grown array.
MeshSubdivide(geom, g) ==
    [verts |-> geom.verts + g,
     prims |-> [i \in 1..Len(geom.prims) |->
                  IF i = Len(geom.prims)
                  THEN [geom.prims[i] EXCEPT !.count = @ + g]
                  ELSE geom.prims[i]]]

\* "check for explicit tessellation disable": the filter's own style is read
DisableTess(style) == Has(style, "Line") /\ style.tess0

\* "subdivide the mesh if necessary to conform to an ECEF globe"
RunsSubdivider(makeECEF, renderType, style) ==
    makeECEF /\ renderType # "POINTSET" /\ ~DisableTess(style)

\* ------------------------------------------------------------ the inputs
\* Feature lists handed to push(): every single-entry list, and the longer
\* lists over the point sets, line strings and polygons without holes, of 2
\* or 3 points (the sizes around the thresholds of the validation), whose
\* override, if any, is the fill-and-outline style with tessellation
\* disabled on a polygon.
FillOutline == [syms |-> {"Polygon", "Line"}, tess0 |-> TRUE, world |-> FALSE]

SeqFeatures ==
    { f \in Features :
        /\ f.part.type # "RING"
        /\ f.part.holes = <<>>
        /\ f.part.size \in 2..3
        /\ (f.hasStyle => f.style = FillOutline /\ f.part.type = "POLYGON") }

FeatureLists ==
    { <<>> } \cup { << f >> : f \in Features }
             \cup { l \in SeqsUpTo(SeqFeatures, MaxFeatures) : Len(l) >= 2 }

\* ------------------------------------------------------------- the state
VARIABLES
    _style,           \* the filter's style
    _featureNameExpr, \* _featureNameExpr.isSet()
    _geode,           \* the accumulator, NullGeode when the filter holds none
    pc,               \* where the push() call on this filter stands
    input,            \* push(): the feature list, as (feature, leaf part) steps
    makeECEF,         \* process(): georeferenced context on a geocentric map
    grow,             \* vertices MeshSubdivider::run adds to a geometry at this push()'s threshold and extent
    idx,              \* process(): the next entry of input
    save,             \* push(): the local copy "save" of the style
    result,           \* what the last push() returned
    pushes,           \* push() calls made so far
    nextId,           \* identities of the accumulators allocated so far
    handedOut,        \* accumulators returned to a caller, in order
    entryStyle,       \* history: _style when the running push() was entered
    msRuns,           \* history: <<pass, entry>> of every MeshSubdivider::run of this push()
    consolidated      \* history: MeshConsolidator and VertexCacheOptimizer ran in this push()

vars == << _style, _featureNameExpr, _geode, pc, input, makeECEF, grow, idx, save,
           result, pushes, nextId, handedOut, entryStyle, msRuns, consolidated >>

NullGeode == [id |-> 0, drawables |-> <<>>]
NullNode  == [id |-> 0, size |-> 0, sources |-> {}]

\* the process() call of the running push(): 1 or 2
Pass == IF pc = "pass2" THEN 2 ELSE 1

InProcess == pc \in {"single", "pass1", "pass2"}

\* a reset() that keeps the accumulator the filter has
reset_Mut == UNCHANGED << _geode, nextId >>

\* BuildGeometryFilter::reset()
reset == _geode' = [id |-> nextId, drawables |-> <<>>] /\ nextId' = nextId + 1

\* The constructor: the style given, defaults, reset().
Init ==
    /\ _style \in Styles
    /\ _featureNameExpr = FALSE
    /\ _geode = [id |-> 1, drawables |-> <<>>]
    /\ nextId = 2
    /\ pc = "idle"
    /\ input = <<>>
    /\ makeECEF = FALSE
    /\ grow = 0
    /\ idx = 1
    /\ save = EmptyStyle
    /\ result = NullNode
    /\ pushes = 0
    /\ handedOut = <<>>
    /\ entryStyle = EmptyStyle
    /\ msRuns = {}
    /\ consolidated = FALSE

\* featureName() = expr / unset, between push() calls
SetFeatureName ==
    /\ pc \in {"idle", "delivered"}
    /\ _featureNameExpr' = ~_featureNameExpr
    /\ UNCHANGED << _style, _geode, pc, input, makeECEF, grow, idx, save, result, pushes,
                    nextId, handedOut, entryStyle, msRuns, consolidated >>

\* push(), up to its first call of process()
Push ==
    /\ pc \in {"idle", "delivered"}
    /\ pushes < MaxPushes
    /\ \E in \in FeatureLists, ecef \in BOOLEAN, g \in 0..MaxGrow :
         /\ ecef \/ g = 0
         /\ input' = in
         /\ makeECEF' = ecef
         /\ grow' = g
    /\ reset
    /\ pushes' = pushes + 1
    /\ entryStyle' = _style
    /\ msRuns' = {}
    /\ consolidated' = FALSE
    /\ result' = NullNode
    /\ idx' = 1
    /\ IF Has(_style, "Polygon") /\ Has(_style, "Line")
       THEN /\ save' = _style
            /\ _style' = Remove(_style, "Line")
            /\ pc' = "pass1"
       ELSE /\ pc' = "single"
            /\ UNCHANGED << save, _style >>
    /\ UNCHANGED << _featureNameExpr, handedOut >>

\* ------------------------------------------------- process(), one part
\* what process() builds for a part before subdivision
BuildGeometry(part, renderType, myStyle) ==
    IF renderType = "POLYGON"
    THEN buildPolygon(part, TRUE, NewGeometry)
    ELSE buildLine(part, renderType, myStyle)

\* the colors sized before the subdivider has run
ColorCount_Mut(built, final) == built.verts

\* "assign the primary color": colors->assign(getNumElements(), primaryColor),
\* on the geometry as it is after the subdivider and the polygonizer
ColorCount(built, final) == final.verts

\* the draw geometry process() adds for the entry at i
Drawable(feature, renderType, built, final, i) ==
    [ renderType |-> renderType,
      pass       |-> Pass,
      sources    |-> { pushes },
      entry      |-> i,
      named      |-> _featureNameExpr,
      loops      |-> IF renderType = "POLYGON" THEN PolygonLoops(feature.part).prims ELSE <<>>,
      built      |-> built.verts,
      verts      |-> final.verts,
      prims      |-> final.prims,
      colors     |-> ColorCount(built, final),
      color      |-> PrimaryColor(MyStyle(feature, _style)) ]

\* process(): the body of the loops for the entry at idx, when the part is
\* skipped or a draw geometry is built for it and added to _geode
ProcessPart ==
    /\ InProcess
    /\ idx <= Len(input)
    /\ LET feature    == input[idx]
           part       == feature.part
           myStyle    == MyStyle(feature, _style)
           renderType == RenderType(myStyle, part)
           built      == BuildGeometry(part, renderType, myStyle)
           subdivide  == RunsSubdivider(makeECEF, renderType, _style)
       IN  IF part.size = 0 \/ BelowMinimum(renderType, part)
           THEN UNCHANGED << _geode, msRuns >>
           ELSE /\ built.verts # NoArray
                /\ LET final == IF subdivide THEN MeshSubdivide(built, grow) ELSE built
                   IN  _geode' = [_geode EXCEPT !.drawables =
                                    Append(@, Drawable(feature, renderType, built, final, idx))]
                /\ msRuns' = IF subdivide THEN msRuns \cup { << Pass, idx >> } ELSE msRuns
    /\ idx' = idx + 1
    /\ UNCHANGED << _style, _featureNameExpr, pc, input, makeECEF, grow, save, result, pushes,
                    nextId, handedOut, entryStyle, consolidated >>

\* process(): buildPolygon() returned without a vertex array, and
\* "allPoints = osgGeom->getVertexArray(); allPoints->getVertexBufferObject()"
\* reads through the null pointer.  The call ends there, or, where that read
\* is survived, at the next read of the array (inside the subdivider, or at
\* getVertexArray()->getNumElements()); nothing is added to _geode.
NullVertexArray ==
    /\ InProcess
    /\ idx <= Len(input)
    /\ LET feature    == input[idx]
           part       == feature.part
           myStyle    == MyStyle(feature, _style)
           renderType == RenderType(myStyle, part)
           built      == BuildGeometry(part, renderType, myStyle)
       IN  /\ part.size # 0
           /\ ~BelowMinimum(renderType, part)
           /\ built.verts = NoArray
           /\ \E survived \in BOOLEAN :
                msRuns' = IF survived /\ RunsSubdivider(makeECEF, renderType, _style)
                          THEN msRuns \cup { << Pass, idx >> } ELSE msRuns
    /\ pc' = "crashed"
    /\ UNCHANGED << _style, _featureNameExpr, _geode, input, makeECEF, grow, idx, save, result,
                    pushes, nextId, handedOut, entryStyle, consolidated >>

\* push(), between its two calls of process()
ProcessReturn1 ==
    /\ pc = "pass1"
    /\ idx > Len(input)
    /\ _style' = Remove(save, "Polygon")
    /\ save' = Remove(save, "Polygon")
    /\ idx' = 1
    /\ pc' = "pass2"
    /\ UNCHANGED << _featureNameExpr, _geode, input, makeECEF, grow, result, pushes, nextId,
                    handedOut, entryStyle, msRuns, consolidated >>

\* push(), after its second call of process(): "_style = save"
ProcessReturn2 ==
    /\ pc = "pass2"
    /\ idx > Len(input)
    /\ _style' = save
    /\ pc' = "consolidate"
    /\ UNCHANGED << _featureNameExpr, _geode, input, makeECEF, grow, idx, save, result, pushes,
                    nextId, handedOut, entryStyle, msRuns, consolidated >>

RECURSIVE SumVerts(_)
SumVerts(ds) == IF ds = <<>> THEN 0 ELSE Head(ds).verts + SumVerts(Tail(ds))

\* MeshConsolidator::run and the VertexCacheOptimizer: the draw geometries
\* of the geode become one triangle batch.
MeshConsolidate(geode) ==
    IF geode.drawables = <<>> THEN geode
    ELSE [geode EXCEPT !.drawables =
            << [ renderType |-> "MESH", pass |-> 0,
                 sources |-> UNION { geode.drawables[i].sources : i \in 1..Len(geode.drawables) },
                 entry |-> 0, named |-> FALSE, loops |-> <<>>,
                 built |-> SumVerts(geode.drawables),
                 verts |-> SumVerts(geode.drawables),
                 prims |-> << DrawArrays("TRIANGLES", 0, SumVerts(geode.drawables)) >>,
                 colors |-> SumVerts(geode.drawables),
                 color |-> "perVertex" ] >>]

\* consolidation whatever the feature-name expression
RunsConsolidator_Mut(nameExprSet) == TRUE

\* "if ( !_featureNameExpr.isSet() )"
RunsConsolidator(nameExprSet) == ~nameExprSet

\* push(): "convert all geom to triangles and consolidate into minimal set
\* of Geometries"
Consolidate ==
    /\ pc = "consolidate" \/ (pc = "single" /\ idx > Len(input))
    /\ IF RunsConsolidator(_featureNameExpr)
       THEN _geode' = MeshConsolidate(_geode) /\ consolidated' = TRUE
       ELSE UNCHANGED << _geode, consolidated >>
    /\ pc' = "finalize"
    /\ UNCHANGED << _style, _featureNameExpr, input, makeECEF, grow, idx, save, result, pushes,
                    nextId, handedOut, entryStyle, msRuns >>

\* process() "return true"
ProcessOk == TRUE

\* delocalize( _geode.release() ): the node that wraps the accumulator
delocalize(geode) ==
    [ id      |-> geode.id,
      size    |-> Len(geode.drawables),
      sources |-> UNION { geode.drawables[i].sources : i \in 1..Len(geode.drawables) } ]

\* push(), from "osg::Node* result = 0L" to its return
Return ==
    /\ pc = "finalize"
    /\ IF ProcessOk
       THEN /\ result' = delocalize(_geode)
            /\ handedOut' = Append(handedOut, _geode.id)
            /\ _geode' = NullGeode
       ELSE /\ result' = NullNode
            /\ UNCHANGED << handedOut, _geode >>
    /\ pc' = "delivered"
    /\ input' = <<>>
    /\ makeECEF' = FALSE
    /\ grow' = 0
    /\ idx' = 1
    /\ save' = EmptyStyle
    /\ msRuns' = {}
    /\ UNCHANGED << _style, _featureNameExpr, pushes, nextId, entryStyle, consolidated >>

Next ==
    \/ SetFeatureName
    \/ Push
    \/ ProcessPart
    \/ NullVertexArray
    \/ ProcessReturn1
    \/ ProcessReturn2
    \/ Consolidate
    \/ Return

Spec == Init /\ [][Next]_vars

\* =========================================================== the claims
\* _geode holds exactly the draw geometries process() has added in the
\* running push(): from its entry until the consolidation step.
Added == pc \in {"single", "pass1", "pass2", "consolidate", "crashed"}

Drawables == { _geode.drawables[i] : i \in 1..Len(_geode.drawables) }

\* the part a draw geometry was built from
PartOf(d) == input[d.entry].part

\* the entry process() is about to handle
AtPart == InProcess /\ idx <= Len(input)

CurrentPart == input[idx].part

CurrentRenderType == RenderType(MyStyle(input[idx], _style), CurrentPart)

\* process() passes over the current entry: nothing is added, nothing fails,
\* and the loop stands at the next entry
SkipsCurrent == _geode' = _geode /\ pc' = pc /\ idx' = idx + 1

TwoPass == Has(entryStyle, "Polygon") /\ Has(entryStyle, "Line")

Tessellated(d) ==
    /\ d.loops # <<>>
    /\ \A k \in 1..Len(d.prims) : d.prims[k].mode = "TRIANGLES"

\* ---------------------------------------------------------------- C1
\* C1: when push() has returned, the filter's style is the style it had
\* when push() was entered.
C1_StylePreserved == pc = "delivered" => _style = entryStyle

\* ---------------------------------------------------------------- C2
\* C2: in a push() of a style with both a PolygonSymbol and a LineSymbol,
\* every draw geometry of the first pass is a tessellated POLYGON and no draw
\* geometry of the second pass is a POLYGON.
C2_PassesDisjoint ==
    (Added /\ TwoPass) =>
        \A d \in Drawables :
            /\ d.pass = 1 => (d.renderType = "POLYGON" /\ Tessellated(d))
            /\ d.pass = 2 => d.renderType # "POLYGON"

\* ---------------------------------------------------------------- C3
\* C3 as stated: a part of type POLYGON with fewer than 3 points, or of type
\* LINESTRING or RING with fewer than 2, is skipped whatever the style.
C3_SkipByPartType ==
    [][ ( /\ AtPart
          /\ \/ CurrentPart.type = "POLYGON" /\ CurrentPart.size < 3
             \/ CurrentPart.type \in {"LINESTRING", "RING"} /\ CurrentPart.size < 2 )
        => SkipsCurrent ]_vars

\* C3 as amended: a part whose resolved render type is POLYGON and that has
\* fewer than 3 points, or whose resolved render type is LINESTRING or RING
\* and that has fewer than 2, is skipped: nothing is added for it, nothing
\* fails, and process() goes on with the next part.
C3_SkipByRenderType ==
    [][ ( /\ AtPart
          /\ \/ CurrentRenderType = "POLYGON" /\ CurrentPart.size < 3
             \/ CurrentRenderType \in {"LINESTRING", "RING"} /\ CurrentPart.size < 2 )
        => SkipsCurrent ]_vars

\* a two-point polygon that resolved to POLYGON was passed over, and the
\* part after it was built
C3_Witness ==
    /\ Added
    /\ Len(input) = 2
    /\ ~input[1].hasStyle
    /\ input[1].part.type = "POLYGON"
    /\ input[1].part.size = 2
    /\ RenderType(MyStyle(input[1], entryStyle), input[1].part) = "POLYGON"
    /\ ~TwoPass
    /\ \E d \in Drawables : d.entry = 2
    /\ \A d \in Drawables : d.entry # 1

\* ---------------------------------------------------------------- C4
\* C4: a part that resolves to POLYGON and whose outer ring the validator
\* reports invalid is skipped: nothing is added, nothing fails, and
\* process() goes on with the next part.
C4_InvalidRingSkipped ==
    [][ ( /\ AtPart
          /\ CurrentRenderType = "POLYGON"
          /\ CurrentPart.size >= 3
          /\ ~CurrentPart.valid )
        => SkipsCurrent ]_vars

\* ---------------------------------------------------------------- C5
\* the line symbol in force for an entry (the feature's own style when it has
\* one, the style push() was entered with otherwise) has tessellation 0
Tess0InForce(i) ==
    LET s == MyStyle(input[i], entryStyle) IN Has(s, "Line") /\ s.tess0

\* C5: the mesh subdivider is never run on a geometry built for an entry
\* whose line symbol in force has tessellation 0.
C5_NoSubdivisionWhenTess0 ==
    \A r \in msRuns : r[2] <= Len(input) => ~Tess0InForce(r[2])

\* ---------------------------------------------------------------- C6
\* C6: a push() in which no draw geometry was added returns no node.
C6_NullWhenNothingBuilt ==
    pc = "delivered" => (result.size = 0 => result = NullNode)

InBounds(prims, n) ==
    \A k \in 1..Len(prims) :
        /\ prims[k].first >= 0
        /\ prims[k].count >= 0
        /\ prims[k].first + prims[k].count <= n

RECURSIVE KeptHoles(_)
KeptHoles(hs) ==
    IF hs = <<>> THEN <<>>
    ELSE IF Head(hs).valid THEN << Head(hs) >> \o KeptHoles(Tail(hs))
    ELSE KeptHoles(Tail(hs))

\* C8: the primitive sets of every draw geometry added lie within its vertex
\* array; the LINE_LOOPs buildPolygon() made for it are the outer ring over
\* [0, n_outer) and then one loop per valid hole, each over the vertices of
\* that hole, one range starting where the one before ends, the last ending
\* at the end of the array.
C8_PrimitivesInBounds ==
    Added =>
        \A d \in Drawables :
            /\ InBounds(d.prims, d.verts)
            /\ d.renderType = "POLYGON" =>
                 LET part == PartOf(d)
                     kept == KeptHoles(part.holes)
                 IN  /\ Len(d.loops) = 1 + Len(kept)
                     /\ d.loops[1].first = 0
                     /\ d.loops[1].count = part.size
                     /\ \A k \in 1..Len(kept) :
                          /\ d.loops[k + 1].count = kept[k].size
                          /\ d.loops[k + 1].first = d.loops[k].first + d.loops[k].count
                     /\ d.loops[Len(d.loops)].first + d.loops[Len(d.loops)].count = d.built
                     /\ InBounds(d.loops, d.built)

\* a polygon whose first hole was dropped and whose second was kept
C8_Witness ==
    /\ Added
    /\ \E d \in Drawables :
         /\ d.renderType = "POLYGON"
         /\ Len(PartOf(d).holes) = 2
         /\ ~PartOf(d).holes[1].valid
         /\ PartOf(d).holes[2].valid
         /\ Len(d.loops) = 2

\* ---------------------------------------------------------------- C9
\* C9: a push() builds into an accumulator that was never handed out and that
\* holds only draw geometries of this call; the node returned holds only
\* draw geometries of this call; no accumulator is handed out twice; once
\* push() has returned the filter holds no accumulator.
C9_FreshAccumulator ==
    /\ (Added \/ pc = "finalize") =>
          /\ _geode.id # 0
          /\ \A k \in 1..Len(handedOut) : handedOut[k] # _geode.id
          /\ \A d \in Drawables : d.sources = { pushes }
    /\ (pc \in {"single", "pass1"} /\ idx = 1) => _geode.drawables = <<>>
    /\ pc = "delivered" =>
          /\ _geode = NullGeode
          /\ result.sources \subseteq { pushes }
          /\ Len(handedOut) = pushes
          /\ result.id = handedOut[Len(handedOut)]
    /\ \A j, k \in 1..Len(handedOut) : j # k => handedOut[j] # handedOut[k]
    /\ \A k \in 1..Len(handedOut) : handedOut[k] # 0

\* the second push() has returned a node with geometry
C9_Witness ==
    /\ pc = "delivered"
    /\ pushes = 2
    /\ Len(handedOut) = 2
    /\ result.size >= 1
    /\ result.sources = { 2 }

\* --------------------------------------------------------------- C10
\* the style process() reads for a draw geometry: the feature's own, or the
\* filter's as it stands in the pass
StyleInPass(d) ==
    IF input[d.entry].hasStyle THEN input[d.entry].style
    ELSE IF ~TwoPass THEN entryStyle
    ELSE IF d.pass = 1 THEN Remove(entryStyle, "Line")
    ELSE Remove(entryStyle, "Polygon")

\* C10: every draw geometry added has as many colors as vertices, all the
\* primary color: the polygon fill if the style has a PolygonSymbol, else
\* the line stroke, else the point fill, else white.
C10_ColorPerVertex ==
    Added =>
        \A d \in Drawables :
            /\ d.colors = d.verts
            /\ d.verts >= 0
            /\ LET s == StyleInPass(d)
               IN  /\ d.color = "polygonFill" <=> Has(s, "Polygon")
                   /\ d.color = "lineStroke" <=> (~Has(s, "Polygon") /\ Has(s, "Line"))
                   /\ d.color = "pointFill" <=> (s.syms = {"Point"})
                   /\ d.color = "white" <=> (s.syms = {})

\* the subdivider has grown a ribbon made by the stroke polygonizer
C10_Witness ==
    /\ Added
    /\ \E d \in Drawables :
         /\ d.verts > d.built
         /\ d.built = 2 * PartOf(d).size
         /\ d.renderType = "LINESTRING"

====
